---- MODULE Spec2Model ----
(***************************************************************************)
(* Model of dbm_ica/run_dbm_minc.py: one run of the run_dbm_minc command.  *)
(* The run is a single sequential thread; every external tool is called    *)
(* through the closure run_command.  External tools are modelled by their  *)
(* exit status and by the files they are documented to write.              *)
(***************************************************************************)
EXTENDS Integers, Sequences, FiniteSets, TLC

VARIABLES
    opts,           \* the command-line options (never assigned after start)
    verbosity,      \* the verbosity parameter, reassigned when quiet is set
    pc,             \* position of the run inside run_dbm_minc
    printed,        \* command lines echoed with the [RUN] prefix, in order
    log,            \* external processes started by subprocess.run, in order
    tmp,            \* the TemporaryDirectory: "none", "open" or "removed"
    tmpFiles,       \* entries of the workspace directory
    nCleanup,       \* how many times the workspace has been removed
    outKind,        \* dpath_out_sub on disk: "absent", "file" or "dir"
    outOld,         \* files of dpath_out_sub that were there before the run
    outNew,         \* files of dpath_out_sub written by this run's copies
    outCreated,     \* TRUE when this run's mkdir created dpath_out_sub
    fpaths_to_copy, \* what is left of the copy loop's iterable
    dirOrder,       \* the order in which dpath_tmp.iterdir() listed entries
    outPre,         \* dpath_out_sub as it was when the run started
    found,          \* resources whose exists() check has returned True
    exitAt,         \* the position the run was at when it exited
    exitCode,       \* the process exit status, NoExit while running
    exitMsg         \* which message print_error_and_exit reported

vars == <<opts, verbosity, pc, printed, log, tmp, tmpFiles, nCleanup, outKind,
          outOld, outNew, outCreated, fpaths_to_copy, dirOrder, outPre,
          found, exitAt, exitCode, exitMsg>>

-----------------------------------------------------------------------------
(* Bounds of the model *)

\* external commands return an exit status in 0..MaxRc
MaxRc == 2
\* the -v flag is counted up to MaxVerbosity times
MaxVerbosity == 2

-----------------------------------------------------------------------------
(* Program constants *)

DEFAULT_VERBOSITY == 2
DEFAULT_TEMPLATE == "mni_icbm152_t1_tal_nlin_sym_09c"
DNAME_TEMPLATE_MAP_KEYS ==
    {"mni_icbm152_t1_tal_nlin_sym_09c", "mni_icbm152_t1_tal_nlin_sym_09a"}
EXT_NIFTI == "nii"
EXT_GZIP == "gz"
EXT_MINC == "mnc"
EXT_TRANSFORM == "xfm"

SUFFIX_TEMPLATE_MASK == "_mask"
SUFFIX_DENOISED == "denoised"
SUFFIX_NORM == "norm"
SUFFIX_MASK == "mask"
SUFFIX_EXTRACTED == "extracted"
SUFFIX_NONLINEAR == "nl"
SUFFIX_DBM == "dbm"
SUFFIX_RESHAPED == "reshaped"

NoExit == -1
None == "None"

\* every file the ten stages are documented to write into the workspace
Artifacts ==
    <<"raw_nii", "raw", "denoised", "norm", "norm_transform", "mask",
      "extracted", "nonlinear", "nonlinear_transform", "dbm", "dbm_reshaped",
      "dbm_nii">>

\* file names are sequences of their dot-separated components; a first
\* component "" is the leading dot of a hidden file (".nii")
InputNames ==
    { <<"scan001", "nii">>, <<"scan001", "nii", "gz">>, <<"scan001", "mnc">>,
      <<"scan001", "gz">>, <<"", "nii">>, <<"", "nii", "gz">> }

\* pathlib: the name has a suffix when its last dot is neither its first
\* nor its last character
has_suffix(name) ==
    /\ Len(name) > 1
    /\ name[Len(name)] # ""
    /\ ~(Len(name) = 2 /\ name[1] = "")

\* Path.suffix: the last component, when the name has a suffix
PathSuffix(name) == IF has_suffix(name) THEN name[Len(name)] ELSE ""

\* Path.stem: the name without its suffix
PathStem(name) ==
    IF has_suffix(name) THEN SubSeq(name, 1, Len(name) - 1) ELSE name

\* str(fpath_nifti).endswith(('.nii', '.nii.gz'))
valid_file_format(name) ==
    \/ Len(name) > 1 /\ name[Len(name)] = EXT_NIFTI
    \/ Len(name) > 2 /\ name[Len(name)] = EXT_GZIP
                     /\ name[Len(name) - 1] = EXT_NIFTI

\* Path.with_suffix: the suffix replaced, or added when there is none
with_suffix(path, ext) ==
    LET p == path
    IN  [parent |-> p.parent, name |-> PathStem(p.name) \o <<ext>>]

\* mutant of add_suffix: the suffix appended after the extension
add_suffix_after_extension(path, suffix, sep) ==
    [parent |-> path.parent, name |-> path.name \o <<suffix>>]

\* add_suffix (lines 326-337): parent / (stem + sep + suffix + extension).
\* With sep '.' the suffix is a new component before the extension (no
\* suffix of the program starts with the separator, so nothing is
\* stripped); with sep None it is glued to the end of the stem.
add_suffix(path, suffix, sep) ==
    LET p    == path
        stem == PathStem(p.name)
        ext  == IF has_suffix(p.name) THEN <<PathSuffix(p.name)>>
                ELSE <<>>
    IN  [parent |-> p.parent,
         name |-> IF sep # None
                  THEN stem \o <<suffix>> \o ext
                  ELSE SubSeq(stem, 1, Len(stem) - 1)
                         \o <<stem[Len(stem)] \o suffix>> \o ext]

\* state of dpath_out_sub before the run
StrayFiles == {"stray", "denoised"}

\* orders in which a directory listing can come back
DirOrders == {"forward", "backward"}

Reverse(s) == [i \in 1..Len(s) |-> s[Len(s) + 1 - i]]

RECURSIVE Filter(_, _)
Filter(s, keep) ==
    IF s = <<>> THEN <<>>
    ELSE IF Head(s) \in keep THEN <<Head(s)>> \o Filter(Tail(s), keep)
         ELSE Filter(Tail(s), keep)

\* dpath_tmp.iterdir(): the entries of the directory, each once, in the
\* order the file system lists them
iterdir(files, order) ==
    IF order = "forward" THEN Filter(Artifacts, files)
    ELSE Filter(Reverse(Artifacts), files)

\* mutant of subset_to_copy: the nonlinear transform listed as well
subset_with_transform ==
    <<"denoised", "mask", "extracted", "nonlinear", "nonlinear_transform",
      "dbm_nii">>

\* the curated subset copied in save-subset mode
subset_to_copy == <<"denoised", "mask", "extracted", "nonlinear", "dbm_nii">>

-----------------------------------------------------------------------------
(* Initial state: the options click hands to run_dbm_minc, and the disk *)

Options ==
    [ fname           : InputNames,
      dpath_share     : {None, "path"},
      dpath_templates : {None, "path"},
      dpath_beast_lib : {None, "path"},
      template_prefix : {DEFAULT_TEMPLATE, "unlisted"},
      save_all        : BOOLEAN,
      overwrite       : BOOLEAN,
      dry_run         : BOOLEAN,
      quiet           : BOOLEAN ]

Init ==
    /\ opts \in Options
    /\ verbosity \in {DEFAULT_VERBOSITY} \cup 1..MaxVerbosity
    /\ pc = "timestamp"
    /\ printed = <<>>
    /\ log = <<>>
    /\ tmp = "none"
    /\ tmpFiles = {}
    /\ nCleanup = 0
    /\ \/ outKind \in {"absent", "file"} /\ outOld = {}
       \/ outKind = "dir" /\ outOld \in SUBSET StrayFiles
    /\ outNew = {}
    /\ outCreated = FALSE
    /\ fpaths_to_copy = <<>>
    /\ dirOrder = None
    /\ outPre = [kind |-> outKind, files |-> outOld]
    /\ found = {}
    /\ exitAt = None
    /\ exitCode = NoExit
    /\ exitMsg = None

-----------------------------------------------------------------------------
(* The paths run_dbm_minc derives from the input scan *)

\* line 116: the input scan, in the directory the user keeps it in
fpath_nifti == [parent |-> "dpath_in", name |-> opts.fname]

\* mutant of is_gzipped: the input is never taken for a gzip file
is_gzipped_never == FALSE

\* line 165: fpath_nifti.suffix == EXT_GZIP
is_gzipped == PathSuffix(fpath_nifti.name) = EXT_GZIP

\* mutant of fpath_raw_nii: the file is put beside the input scan
fpath_raw_nii_beside_input ==
    IF is_gzipped THEN with_suffix(fpath_nifti, EXT_NIFTI) ELSE fpath_nifti

\* lines 166 and 171: dpath_tmp / fpath_nifti.stem (the last suffix
\* dropped), or dpath_tmp / fpath_nifti.name (the last suffix kept)
fpath_raw_nii ==
    [parent |-> "dpath_tmp",
     name |-> IF is_gzipped THEN PathStem(fpath_nifti.name)
              ELSE fpath_nifti.name]

\* lines 145-147: the template and its mask
fpath_template ==
    [parent |-> "dpath_templates", name |-> <<opts.template_prefix, EXT_MINC>>]
fpath_template_mask == add_suffix(fpath_template, SUFFIX_TEMPLATE_MASK, None)

\* line 175: dpath_out / fpath_raw_nii.stem
dpath_out_sub == [parent |-> "dpath_out", name |-> PathStem(fpath_raw_nii.name)]

\* line 186: dpath_tmp / fpath_raw_nii.with_suffix(EXT_MINC); the right
\* operand is absolute, so that the join is that operand
fpath_raw == with_suffix(fpath_raw_nii, EXT_MINC)
\* line 194
fpath_denoised == add_suffix(fpath_raw, SUFFIX_DENOISED, ".")
\* lines 203-204
fpath_norm == add_suffix(fpath_denoised, SUFFIX_NORM, ".")
fpath_norm_transform == with_suffix(fpath_norm, EXT_TRANSFORM)
\* line 215
fpath_mask == add_suffix(fpath_norm, SUFFIX_MASK, ".")
\* line 229
fpath_extracted == add_suffix(fpath_norm, SUFFIX_EXTRACTED, ".")
\* lines 240-241
fpath_nonlinear == add_suffix(fpath_extracted, SUFFIX_NONLINEAR, ".")
fpath_nonlinear_transform == with_suffix(fpath_nonlinear, EXT_TRANSFORM)
\* line 254
fpath_dbm == add_suffix(fpath_nonlinear, SUFFIX_DBM, ".")
\* line 264
fpath_dbm_reshaped == add_suffix(fpath_dbm, SUFFIX_RESHAPED, ".")
\* line 273
fpath_dbm_nii == with_suffix(fpath_dbm_reshaped, EXT_NIFTI)

\* the path of each workspace artifact
fpath(artifact) ==
    CASE artifact = "raw_nii" -> fpath_raw_nii
      [] artifact = "raw" -> fpath_raw
      [] artifact = "denoised" -> fpath_denoised
      [] artifact = "norm" -> fpath_norm
      [] artifact = "norm_transform" -> fpath_norm_transform
      [] artifact = "mask" -> fpath_mask
      [] artifact = "extracted" -> fpath_extracted
      [] artifact = "nonlinear" -> fpath_nonlinear
      [] artifact = "nonlinear_transform" -> fpath_nonlinear_transform
      [] artifact = "dbm" -> fpath_dbm
      [] artifact = "dbm_reshaped" -> fpath_dbm_reshaped
      [] artifact = "dbm_nii" -> fpath_dbm_nii

\* the paths a command is given to write: its workspace outputs, and for
\* cp the file of the same name in dpath_out_sub (lines 298-301)
out_paths(writes, copies) ==
    {fpath(a) : a \in writes}
        \cup {[parent |-> "dpath_out_sub", name |-> fpath(a).name] :
                 a \in copies}

-----------------------------------------------------------------------------
(* Leaving the run *)

\* mutant of leave_with: a directory made with mkdtemp() and never removed
leave_with_leak(t) == t

\* TemporaryDirectory.__exit__: the with block removes the workspace when
\* control leaves it, by return or by any exception (SystemExit included)
leave_with(t) == IF t = "open" THEN "removed" ELSE t

\* mutant of print_error_and_exit: sys.exit(1) whatever exit_code is
print_error_and_exit_1(message, exit_code) ==
    /\ pc' = "exited"
    /\ exitAt' = pc
    /\ exitCode' = 1
    /\ exitMsg' = message
    /\ tmp' = leave_with(tmp)
    /\ nCleanup' = IF tmp' # tmp THEN nCleanup + 1 ELSE nCleanup
    /\ tmpFiles' = {}

\* print_error_and_exit: echo the message, then sys.exit(exit_code).  The
\* SystemExit unwinds through the with block and is not caught by
\* "except Exception", so the process ends with exit_code.
print_error_and_exit(message, exit_code) ==
    /\ pc' = "exited"
    /\ exitAt' = pc
    /\ exitCode' = exit_code
    /\ exitMsg' = message
    /\ tmp' = leave_with(tmp)
    /\ nCleanup' = IF tmp' # tmp THEN nCleanup + 1 ELSE nCleanup
    /\ tmpFiles' = {}

\* the exceptions the try block can see
Exceptions == {"KeyError", "OSError", "NotADirectoryError"}

\* an exception raised inside the try block: the with block is left, then
\* "except Exception" reports the traceback with the default exit code
except_Exception(ex) == print_error_and_exit(ex, 1)

-----------------------------------------------------------------------------
(* run_command *)

\* line 84: the command line is echoed (silent is never passed)
echoes == (verbosity > 0) \/ opts.dry_run

\* mutant of executes: the dry_run test of line 87 left out
executes_always == TRUE

\* line 87: the command is handed to subprocess.run
executes == ~opts.dry_run

\* lines 88-92: where the child's standard output goes
stdout_of(stdout) ==
    IF stdout # None THEN stdout
    ELSE IF verbosity < 2 THEN "DEVNULL" ELSE "inherit"

\* mutant of subprocess_run: check=True left out, so that a nonzero return
\* code raises nothing and the caller continues
subprocess_run_unchecked(cmd, arg, stdout, opened, writes, copies, next) ==
    \/ \E returncode \in 0..MaxRc :
         /\ log' = Append(log, [cmd |-> cmd, arg |-> arg, stdout |-> stdout,
                                returncode |-> returncode,
                                verbosity |-> verbosity, echoed |-> echoes,
                                writes |-> writes,
                                out |-> out_paths(writes, copies)])
         /\ pc' = next
         /\ tmpFiles' = tmpFiles \cup opened \cup
                           (IF returncode = 0 THEN writes ELSE {})
         /\ outNew' = outNew \cup (IF returncode = 0 THEN copies ELSE {})
         /\ outOld' = outOld \ (IF returncode = 0 THEN copies ELSE {})
         /\ UNCHANGED <<tmp, nCleanup, exitAt, exitCode, exitMsg>>
    \/ /\ except_Exception("OSError")
       /\ UNCHANGED <<log, outOld, outNew>>

\* lines 95-102: subprocess.run(args, check=True), whose
\* CalledProcessError goes to print_error_and_exit with the return code.
\* opened are the files the caller created for the call, writes the
\* workspace files and copies the output files the tool writes when it
\* returns 0; next is where the caller continues.
subprocess_run(cmd, arg, stdout, opened, writes, copies, next) ==
    \/ \E returncode \in 0..MaxRc :
         /\ log' = Append(log, [cmd |-> cmd, arg |-> arg, stdout |-> stdout,
                                returncode |-> returncode,
                                verbosity |-> verbosity, echoed |-> echoes,
                                writes |-> writes,
                                out |-> out_paths(writes, copies)])
         /\ IF returncode = 0
            THEN /\ pc' = next
                 /\ tmpFiles' = tmpFiles \cup opened \cup writes
                 /\ outNew' = outNew \cup copies
                 /\ outOld' = outOld \ copies
                 /\ UNCHANGED <<tmp, nCleanup, exitAt, exitCode, exitMsg>>
            ELSE /\ print_error_and_exit("returned", returncode)
                 /\ UNCHANGED <<outOld, outNew>>
    \/ \* subprocess.run raises something else than CalledProcessError
       \* (the executable is missing): no child process was started
       /\ except_Exception("OSError")
       /\ UNCHANGED <<log, outOld, outNew>>

\* run_command(args, stdout): cmd and arg stand for the argument list
run_command(cmd, arg, stdout, opened, writes, copies, next) ==
    LET line == [cmd |-> cmd, arg |-> arg] IN
    /\ printed' = IF echoes THEN Append(printed, line) ELSE printed
    /\ IF executes
       THEN subprocess_run(cmd, arg, stdout_of(stdout), opened, writes,
                           copies, next)
       ELSE /\ pc' = next
            /\ tmpFiles' = tmpFiles \cup opened
            /\ UNCHANGED <<log, tmp, nCleanup, outOld, outNew, exitAt,
                           exitCode, exitMsg>>

\* timestamp(): run_command(['date'])
timestamp(next) == run_command("date", None, None, {}, {}, {}, next)

-----------------------------------------------------------------------------
(* The steps of run_dbm_minc, in program order *)

\* line 109
TimestampStart ==
    /\ pc = "timestamp"
    /\ timestamp("resolve")
    /\ UNCHANGED <<opts, verbosity, outKind, outCreated, fpaths_to_copy,
                   dirOrder, outPre, found>>

\* mutant of share_dir_missing: "and" written for the "or" of line 119
share_dir_missing_and ==
    /\ opts.dpath_share = None
    /\ (opts.dpath_templates = None /\ opts.dpath_beast_lib = None)

\* lines 118-119: no --share-dir, and one of the two directories missing
share_dir_missing ==
    /\ opts.dpath_share = None
    /\ (opts.dpath_templates = None \/ opts.dpath_beast_lib = None)

\* lines 111-132: quiet overrides verbosity; the directory options
ProcessPaths ==
    /\ pc = "resolve"
    /\ verbosity' = IF opts.quiet THEN 0 ELSE verbosity
    /\ IF share_dir_missing
       THEN print_error_and_exit("share_dir_not_given", 1)
       ELSE IF opts.dpath_templates = None
               /\ opts.template_prefix \notin DNAME_TEMPLATE_MAP_KEYS
            THEN except_Exception("KeyError")  \* DNAME_TEMPLATE_MAP[...]
            ELSE /\ pc' = "check_input"
                 /\ UNCHANGED <<tmp, nCleanup, tmpFiles, exitAt, exitCode, exitMsg>>
    /\ UNCHANGED <<opts, printed, log, outKind, outOld, outNew, outCreated,
                   fpaths_to_copy, dirOrder, outPre, found>>

\* lines 134-142: the input scan exists and has a valid extension
CheckInput ==
    /\ pc = "check_input"
    /\ \E exists \in BOOLEAN :
         IF ~exists
         THEN print_error_and_exit("nifti_not_found", 1) /\ found' = found
         ELSE IF ~valid_file_format(opts.fname)
              THEN /\ print_error_and_exit("invalid_file_format", 1)
                   /\ found' = found \cup {"fpath_nifti"}
              ELSE /\ pc' = "check_template"
                   /\ found' = found \cup {"fpath_nifti"}
                   /\ UNCHANGED <<tmp, nCleanup, tmpFiles, exitAt, exitCode, exitMsg>>
    /\ UNCHANGED <<opts, verbosity, printed, log, outKind, outOld, outNew,
                   outCreated, fpaths_to_copy, dirOrder, outPre>>

\* lines 144-153: the template and its mask exist
CheckTemplate ==
    /\ pc = "check_template"
    /\ \E template_exists \in BOOLEAN, mask_exists \in BOOLEAN :
         IF ~template_exists
         THEN print_error_and_exit("template_not_found", 1) /\ found' = found
         ELSE IF ~mask_exists
              THEN /\ print_error_and_exit("template_mask_not_found", 1)
                   /\ found' = found \cup {"fpath_template"}
              ELSE /\ pc' = "check_beast_lib"
                   /\ found' = found \cup {"fpath_template",
                                           "fpath_template_mask"}
                   /\ UNCHANGED <<tmp, nCleanup, tmpFiles, exitAt, exitCode, exitMsg>>
    /\ UNCHANGED <<opts, verbosity, printed, log, outKind, outOld, outNew,
                   outCreated, fpaths_to_copy, dirOrder, outPre>>

\* mutant of CheckBeastLib: the existence check left out
CheckBeastLib_unchecked ==
    /\ pc = "check_beast_lib"
    /\ pc' = "tmpdir"
    /\ UNCHANGED <<opts, verbosity, printed, log, tmp, tmpFiles, nCleanup,
                   outKind, outOld, outNew, outCreated, fpaths_to_copy,
                   dirOrder, outPre, found, exitAt, exitCode, exitMsg>>

\* lines 155-159: the BEaST library directory exists
CheckBeastLib ==
    /\ pc = "check_beast_lib"
    /\ \E exists \in BOOLEAN :
         IF ~exists
         THEN print_error_and_exit("beast_lib_not_found", 1) /\ found' = found
         ELSE /\ pc' = "tmpdir"
              /\ found' = found \cup {"dpath_beast_lib"}
              /\ UNCHANGED <<tmp, nCleanup, tmpFiles, exitAt, exitCode, exitMsg>>
    /\ UNCHANGED <<opts, verbosity, printed, log, outKind, outOld, outNew,
                   outCreated, fpaths_to_copy, dirOrder, outPre>>

\* lines 161-162: with TemporaryDirectory() as dpath_tmp
OpenWorkspace ==
    /\ pc = "tmpdir"
    /\ tmp' = "open"
    /\ pc' = "materialize"
    /\ UNCHANGED <<opts, verbosity, printed, log, tmpFiles, nCleanup, outKind,
                   outOld, outNew, outCreated, fpaths_to_copy, dirOrder,
                   outPre, found, exitAt, exitCode, exitMsg>>

\* mutant of Materialize: the run goes on with nii2mnc, the output
\* directory being dealt with only later
Materialize_then_convert ==
    /\ pc = "materialize"
    /\ IF is_gzipped
       THEN run_command("zcat", "fpath_nifti", "file_raw", {"raw_nii"},
                        {"raw_nii"}, {}, "nii2mnc")
       ELSE run_command("ln", "fpath_nifti", None, {}, {"raw_nii"}, {},
                        "nii2mnc")
    /\ UNCHANGED <<opts, verbosity, outKind, outCreated, fpaths_to_copy,
                   dirOrder, outPre, found>>

\* lines 164-172: zcat into a file opened in the workspace, or ln -s
Materialize ==
    /\ pc = "materialize"
    /\ IF is_gzipped
       THEN run_command("zcat", "fpath_nifti", "file_raw", {"raw_nii"},
                        {"raw_nii"}, {}, "outdir")
       ELSE run_command("ln", "fpath_nifti", None, {}, {"raw_nii"}, {},
                        "outdir")
    /\ UNCHANGED <<opts, verbosity, outKind, outCreated, fpaths_to_copy,
                   dirOrder, outPre, found>>

\* mutant of mkdir_FileExistsError: mkdir called with exist_ok=True
mkdir_exist_ok_True(kind, exist_ok) == kind = "file"

\* line 177: mkdir(parents=True, exist_ok=...) raises FileExistsError when
\* the path exists, unless exist_ok is set and the path is a directory
mkdir_FileExistsError(kind, exist_ok) ==
    \/ kind = "file"
    \/ kind = "dir" /\ ~exist_ok

\* mutant of not_empty: the emptiness test of line 179 never fires
not_empty_never(files) == FALSE

\* line 179: len(list(dpath_out_sub.iterdir())) != 0
not_empty(files) == Cardinality(files) # 0

\* mutant of OutputDirectory: a dry run leaves the output directory alone
OutputDirectory_skipped_in_dry_run ==
    /\ pc = "outdir"
    /\ IF opts.dry_run
       THEN /\ pc' = "nii2mnc"
            /\ UNCHANGED <<tmp, nCleanup, tmpFiles, exitAt, exitCode,
                           exitMsg, outKind, outCreated>>
       ELSE IF mkdir_FileExistsError(outKind, opts.overwrite)
       THEN /\ IF outKind = "file"
               THEN except_Exception("NotADirectoryError")   \* iterdir()
               ELSE IF not_empty(outOld)
                    THEN print_error_and_exit("output_directory_exists", 1)
                    ELSE /\ pc' = "nii2mnc"
                         /\ UNCHANGED <<tmp, nCleanup, tmpFiles, exitAt,
                                        exitCode, exitMsg>>
            /\ UNCHANGED <<outKind, outCreated>>
       ELSE \/ /\ pc' = "nii2mnc"
               /\ outKind' = "dir"
               /\ outCreated' = (outKind = "absent")
               /\ UNCHANGED <<tmp, nCleanup, tmpFiles, exitAt, exitCode,
                              exitMsg>>
            \/ \* mkdir cannot create the directory: another OSError
               /\ outKind = "absent"
               /\ except_Exception("OSError")
               /\ UNCHANGED <<outKind, outCreated>>
    /\ UNCHANGED <<opts, verbosity, printed, log, outOld, outNew,
                   fpaths_to_copy, dirOrder, outPre, found>>

\* lines 174-183: dpath_out_sub.mkdir(parents=True, exist_ok=overwrite)
OutputDirectory ==
    /\ pc = "outdir"
    /\ IF mkdir_FileExistsError(outKind, opts.overwrite)
       THEN /\ IF outKind = "file"
               THEN except_Exception("NotADirectoryError")   \* iterdir()
               ELSE IF not_empty(outOld)
                    THEN print_error_and_exit("output_directory_exists", 1)
                    ELSE /\ pc' = "nii2mnc"
                         /\ UNCHANGED <<tmp, nCleanup, tmpFiles, exitAt,
                                        exitCode, exitMsg>>
            /\ UNCHANGED <<outKind, outCreated>>
       ELSE \/ /\ pc' = "nii2mnc"
               /\ outKind' = "dir"
               /\ outCreated' = (outKind = "absent")
               /\ UNCHANGED <<tmp, nCleanup, tmpFiles, exitAt, exitCode,
                              exitMsg>>
            \/ \* mkdir cannot create the directory: another OSError
               /\ outKind = "absent"
               /\ except_Exception("OSError")
               /\ UNCHANGED <<outKind, outCreated>>
    /\ UNCHANGED <<opts, verbosity, printed, log, outOld, outNew,
                   fpaths_to_copy, dirOrder, outPre, found>>

\* the paths each command of lines 164-279 reads: artifacts of the
\* workspace, validated resources, the template directory and the BEaST
\* configuration file
inputs_of(cmd) ==
    CASE cmd \in {"zcat", "ln"}   -> {"fpath_nifti"}
      [] cmd = "nii2mnc"          -> {"raw_nii"}
      [] cmd = "mincnlm"          -> {"raw"}
      [] cmd = "beast_normalize"  -> {"dpath_templates", "denoised"}
      [] cmd = "mincbeast"        -> {"fpath_conf", "dpath_beast_lib", "norm"}
      [] cmd = "minccalc"         -> {"norm", "mask"}
      [] cmd = "nlfit_s"          -> {"mask", "fpath_template_mask",
                                      "extracted", "fpath_template"}
      [] cmd = "pipeline_dbm.pl"  -> {"fpath_template", "nonlinear_transform"}
      [] cmd = "mincreshape"      -> {"dbm"}
      [] cmd = "mnc2nii"          -> {"dbm_reshaped"}
      [] OTHER                    -> {}

\* what every stage of lines 185-282 does: one run_command that writes
\* into the workspace
stage(cmd, arg, writes, next) ==
    /\ run_command(cmd, arg, None, {}, writes, {}, next)
    /\ UNCHANGED <<opts, verbosity, outKind, outCreated, fpaths_to_copy,
                   dirOrder, outPre, found>>

\* lines 185-191: convert to minc format
Nii2mnc ==
    /\ pc = "nii2mnc"
    /\ stage("nii2mnc", "raw_nii", {"raw"}, "mincnlm")

\* lines 193-200: denoise
Mincnlm ==
    /\ pc = "mincnlm"
    /\ stage("mincnlm", "raw", {"denoised"}, "beast_normalize")

\* mutant of BeastNormalize: the run goes on with minccalc, skipping
\* mincbeast
BeastNormalize_skips_mincbeast ==
    /\ pc = "beast_normalize"
    /\ stage("beast_normalize", "denoised", {"norm", "norm_transform"},
             "minccalc")

\* lines 202-212: normalize, scale, perform linear registration
BeastNormalize ==
    /\ pc = "beast_normalize"
    /\ stage("beast_normalize", "denoised", {"norm", "norm_transform"},
             "mincbeast")

\* mutant of Mincbeast: the run goes on with nlfit_s, skipping minccalc
Mincbeast_skips_minccalc ==
    /\ pc = "mincbeast"
    /\ stage("mincbeast", "norm", {"mask"}, "nlfit_s")

\* lines 214-226: get brain mask
Mincbeast ==
    /\ pc = "mincbeast"
    /\ stage("mincbeast", "norm", {"mask"}, "minccalc")

\* lines 228-237: extract brain
Minccalc ==
    /\ pc = "minccalc"
    /\ stage("minccalc", "norm", {"extracted"}, "nlfit_s")

\* lines 239-251: perform nonlinear registration
NlfitS ==
    /\ pc = "nlfit_s"
    /\ stage("nlfit_s", "extracted", {"nonlinear", "nonlinear_transform"},
             "pipeline_dbm")

\* lines 253-261: get DBM map
PipelineDbm ==
    /\ pc = "pipeline_dbm"
    /\ stage("pipeline_dbm.pl", "nonlinear_transform", {"dbm"}, "mincreshape")

\* mutant of Mincreshape: the run goes on with the listing, skipping mnc2nii
Mincreshape_skips_mnc2nii ==
    /\ pc = "mincreshape"
    /\ stage("mincreshape", "dbm", {"dbm_reshaped"}, "ls_tmp")

\* lines 263-270: reshape
Mincreshape ==
    /\ pc = "mincreshape"
    /\ stage("mincreshape", "dbm", {"dbm_reshaped"}, "mnc2nii")

\* lines 272-279: convert back to nifti
Mnc2nii ==
    /\ pc = "mnc2nii"
    /\ stage("mnc2nii", "dbm_reshaped", {"dbm_nii"}, "ls_tmp")

\* lines 281-282: list all output files
ListWorkspace ==
    /\ pc = "ls_tmp"
    /\ stage("ls", "dpath_tmp", {}, "select")

\* lines 284-294: the files to copy
SelectFiles ==
    /\ pc = "select"
    /\ IF opts.save_all
       THEN \E order \in DirOrders :
              /\ dirOrder' = order
              /\ fpaths_to_copy' = iterdir(tmpFiles, order)
       ELSE /\ dirOrder' = dirOrder
            /\ fpaths_to_copy' = subset_to_copy
    /\ pc' = "copy"
    /\ UNCHANGED <<opts, verbosity, printed, log, tmp, tmpFiles, nCleanup,
                   outKind, outOld, outNew, outCreated, outPre, found,
                   exitAt, exitCode, exitMsg>>

\* lines 296-302: one iteration of the copy loop
CopyFile ==
    /\ pc = "copy"
    /\ fpaths_to_copy # <<>>
    /\ run_command("cp", Head(fpaths_to_copy), None, {}, {},
                   {Head(fpaths_to_copy)}, "copy")
    /\ fpaths_to_copy' = Tail(fpaths_to_copy)
    /\ UNCHANGED <<opts, verbosity, outKind, outCreated, dirOrder, outPre, found>>

\* lines 304-305: the loop is exhausted
ListOutput ==
    /\ pc = "copy"
    /\ fpaths_to_copy = <<>>
    /\ run_command("ls", "dpath_out_sub", None, {}, {}, {}, "timestamp_end")
    /\ UNCHANGED <<opts, verbosity, outKind, outCreated, fpaths_to_copy,
                   dirOrder, outPre, found>>

\* line 307
TimestampEnd ==
    /\ pc = "timestamp_end"
    /\ timestamp("return")
    /\ UNCHANGED <<opts, verbosity, outKind, outCreated, fpaths_to_copy,
                   dirOrder, outPre, found>>

\* the with block ends and run_dbm_minc returns: exit status 0
Return ==
    /\ pc = "return"
    /\ pc' = "exited"
    /\ exitAt' = pc
    /\ exitCode' = 0
    /\ tmp' = leave_with(tmp)
    /\ nCleanup' = IF tmp' # tmp THEN nCleanup + 1 ELSE nCleanup
    /\ tmpFiles' = {}
    /\ UNCHANGED <<opts, verbosity, printed, log, outKind, outOld, outNew,
                   outCreated, fpaths_to_copy, dirOrder, outPre, found,
                   exitMsg>>

Next ==
    \/ TimestampStart
    \/ ProcessPaths
    \/ CheckInput
    \/ CheckTemplate
    \/ CheckBeastLib
    \/ OpenWorkspace
    \/ Materialize
    \/ OutputDirectory
    \/ Nii2mnc
    \/ Mincnlm
    \/ BeastNormalize
    \/ Mincbeast
    \/ Minccalc
    \/ NlfitS
    \/ PipelineDbm
    \/ Mincreshape
    \/ Mnc2nii
    \/ ListWorkspace
    \/ SelectFiles
    \/ CopyFile
    \/ ListOutput
    \/ TimestampEnd
    \/ Return

Spec == Init /\ [][Next]_vars

-----------------------------------------------------------------------------
(* Properties *)

\* the positions inside the with block (lines 161-307)
InsideWith ==
    {"materialize", "outdir", "nii2mnc", "mincnlm", "beast_normalize",
     "mincbeast", "minccalc", "nlfit_s", "pipeline_dbm", "mincreshape",
     "mnc2nii", "ls_tmp", "select", "copy", "timestamp_end", "return"}

\* the positions after the output-directory step (lines 185-307)
AfterOutputDirectory == InsideWith \ {"materialize", "outdir"}

\* the messages print_error_and_exit reports for a validation error
ValidationMessages ==
    {"share_dir_not_given", "nifti_not_found", "invalid_file_format",
     "template_not_found", "template_mask_not_found", "beast_lib_not_found",
     "output_directory_exists"}

Completed == pc = "exited" /\ exitAt = "return"

Commands(entries) == [i \in 1..Len(entries) |-> entries[i].cmd]

\* C1: in execute mode a command that returned a nonzero status is the last
\* external command of the run: for every position k of the sequence of
\* started commands, a failure at k means that no command k+1.. was started,
\* and the run has exited.
C1_FailureStopsRun ==
    ~opts.dry_run =>
        \A k \in 1..Len(log) :
            log[k].returncode # 0 => (k = Len(log) /\ pc = "exited")

C1_Witness ==
    /\ ~opts.dry_run
    /\ pc = "exited"
    /\ Len(log) > 4
    /\ log[Len(log)].cmd = "mincbeast"
    /\ log[Len(log)].returncode # 0

\* C2: once the workspace has been acquired it is removed exactly once
\* before the process exits, on every exit path from inside the with block
\* (normal return, a failing command, the output conflict, an exception),
\* and it is never removed while the run is still going.
C2_WorkspaceRemovedOnce ==
    /\ nCleanup \in {0, 1}
    /\ (tmp = "removed") <=> (nCleanup = 1)
    /\ pc \in InsideWith => tmp = "open"
    /\ tmp = "removed" => pc = "exited"
    /\ (pc = "exited" /\ exitAt \in InsideWith) =>
           (tmp = "removed" /\ nCleanup = 1 /\ tmpFiles = {})
    /\ (pc = "exited" /\ exitAt \notin InsideWith) => tmp = "none"

C2_Witness ==
    /\ pc = "exited"
    /\ exitAt = "copy"
    /\ exitMsg = "returned"
    /\ tmp = "removed"
    /\ nCleanup = 1

\* C3: the exit code is 0 when the stage chain and the staging completed,
\* it is the failing command's return code when a command returned nonzero,
\* and it is 1 for every validation error and every caught exception.
C3_ExitCode ==
    /\ pc = "exited" =>
         /\ Completed => (exitCode = 0 /\ exitMsg = None)
         /\ exitMsg = "returned" =>
                /\ log # <<>>
                /\ log[Len(log)].returncode # 0
                /\ exitCode = log[Len(log)].returncode
         /\ exitMsg \in ValidationMessages \cup Exceptions => exitCode = 1
         /\ Completed \/ exitMsg \in {"returned"} \cup ValidationMessages
                                       \cup Exceptions
    /\ (log # <<>> /\ log[Len(log)].returncode # 0) =>
           (pc = "exited" /\ exitCode = log[Len(log)].returncode)
    /\ pc # "exited" => exitCode = NoExit

C3_Witness ==
    /\ pc = "exited"
    /\ exitMsg = "returned"
    /\ exitCode = 2
    /\ log[Len(log)].cmd = "nlfit_s"

\* the commands of the ten stages
StageCommands ==
    {"zcat", "ln", "nii2mnc", "mincnlm", "beast_normalize", "mincbeast",
     "minccalc", "nlfit_s", "pipeline_dbm.pl", "mincreshape", "mnc2nii"}

StageOrder(materialize) ==
    <<materialize, "nii2mnc", "mincnlm", "beast_normalize", "mincbeast",
      "minccalc", "nlfit_s", "pipeline_dbm.pl", "mincreshape", "mnc2nii">>

IsStageEntry(e) == e.cmd \in StageCommands

StagesInvoked == Commands(SelectSeq(log, IsStageEntry))

IsPrefix(s, t) == Len(s) <= Len(t) /\ s = SubSeq(t, 1, Len(s))

\* C4: in any run the stage commands invoked so far are a prefix of the
\* fixed order Materialize (zcat or ln), nii2mnc, mincnlm, beast_normalize,
\* mincbeast, minccalc, nlfit_s, pipeline_dbm.pl, mincreshape, mnc2nii; in
\* an execute-mode run whose commands all succeeded they are the whole
\* order, each stage once.
C4_StageOrder ==
    \E materialize \in {"zcat", "ln"} :
        /\ IsPrefix(StagesInvoked, StageOrder(materialize))
        /\ (~opts.dry_run /\ Completed) =>
               StagesInvoked = StageOrder(materialize)

C4_Witness ==
    /\ ~opts.dry_run
    /\ Completed
    /\ Len(StagesInvoked) = 10
    /\ \A k \in 1..Len(log) : log[k].returncode = 0

\* the resources lines 134-159 check for existence
Resources ==
    {"fpath_nifti", "fpath_template", "fpath_template_mask",
     "dpath_beast_lib"}

\* the run ended on a validation error of lines 115-159 (the KeyError is
\* the unrecognized template name)
PathValidationFailed ==
    /\ pc = "exited"
    /\ exitMsg \in (ValidationMessages \ {"output_directory_exists"})
                       \cup {"KeyError"}

\* C5 as stated: validation yields existing paths for the four resources,
\* or fails while the number of external commands executed so far is zero.
C5_NoCommandBeforeValidationFailure ==
    /\ pc \in InsideWith \cup {"tmpdir"} => found = Resources
    /\ PathValidationFailed => Len(log) = 0

\* C5 amended: validation yields existing paths for the four resources, or
\* fails before the workspace is created and before any stage, listing or
\* copy command; the only external command executed by then is the date of
\* the opening timestamp (execute mode), and none in dry-run mode.
C5_OnlyTimestampBeforeValidationFailure ==
    /\ pc \in InsideWith \cup {"tmpdir"} => found = Resources
    /\ PathValidationFailed =>
         /\ tmp = "none"
         /\ nCleanup = 0
         /\ found # Resources
         /\ Commands(log) = IF opts.dry_run THEN <<>> ELSE <<"date">>

C5_Witness ==
    /\ PathValidationFailed
    /\ ~opts.dry_run
    /\ exitMsg = "template_mask_not_found"
    /\ Len(log) = 1

\* C6: in dry-run mode no external process is ever started, whatever the
\* configuration and however far the run gets: not the timestamps, not the
\* stages, not the listings and not the copies.
C6_DryRunExecutesNothing == opts.dry_run => log = <<>>

C6_Witness ==
    /\ opts.dry_run
    /\ Completed
    /\ log = <<>>
    /\ \E i \in 1..Len(printed) : printed[i].cmd = "cp"
    /\ printed[Len(printed)].cmd = "date"

Lines(entries) ==
    [i \in 1..Len(entries) |-> [cmd |-> entries[i].cmd, arg |-> entries[i].arg]]

CopyLines(files) == [i \in 1..Len(files) |-> [cmd |-> "cp", arg |-> files[i]]]

AllArtifacts == {Artifacts[i] : i \in 1..Len(Artifacts)}

\* the command lines an execute-mode run invokes when every command
\* succeeds (lines 109-307), the workspace being listed in the given order
execute_run_commands(order) ==
    <<[cmd |-> "date", arg |-> None],
      [cmd |-> IF is_gzipped THEN "zcat" ELSE "ln",
       arg |-> "fpath_nifti"],
      [cmd |-> "nii2mnc", arg |-> "raw_nii"],
      [cmd |-> "mincnlm", arg |-> "raw"],
      [cmd |-> "beast_normalize", arg |-> "denoised"],
      [cmd |-> "mincbeast", arg |-> "norm"],
      [cmd |-> "minccalc", arg |-> "norm"],
      [cmd |-> "nlfit_s", arg |-> "extracted"],
      [cmd |-> "pipeline_dbm.pl", arg |-> "nonlinear_transform"],
      [cmd |-> "mincreshape", arg |-> "dbm"],
      [cmd |-> "mnc2nii", arg |-> "dbm_reshaped"],
      [cmd |-> "ls", arg |-> "dpath_tmp"]>>
    \o CopyLines(IF opts.save_all THEN iterdir(AllArtifacts, order)
                 ELSE subset_to_copy)
    \o <<[cmd |-> "ls", arg |-> "dpath_out_sub"],
         [cmd |-> "date", arg |-> None]>>

\* execute_run_commands is what the execute-mode runs of the model invoke
ExecuteRunCommandsAgree ==
    (~opts.dry_run /\ Completed) => Lines(log) = execute_run_commands(dirOrder)

\* C7: a completed dry run has printed exactly the command lines that an
\* execute-mode run of the same configuration invokes when every command
\* succeeds, copies included, in the same order.
C7_DryRunPrintsPlan ==
    (opts.dry_run /\ Completed) =>
        \E order \in DirOrders : printed = execute_run_commands(order)

\* the same, for save-subset mode alone
DryRunPrintsPlanOfSubset ==
    (opts.dry_run /\ Completed /\ ~opts.save_all) =>
        \E order \in DirOrders : printed = execute_run_commands(order)

\* the output subdirectory was there, not empty, and overwrite is off
OutputConflict ==
    outPre.kind = "dir" /\ outPre.files # {} /\ ~opts.overwrite

\* C8: with a non-empty output subdirectory and overwrite off, the run
\* never gets past the output-directory step, that step reports the output
\* conflict with exit code 1, no copy is ever invoked and the directory is
\* left as it was; with overwrite on, the step lets the run proceed and a
\* copy replaces the file of the same name.
C8_OutputConflict ==
    /\ OutputConflict =>
         /\ pc \notin AfterOutputDirectory
         /\ pc = "exited" =>
               /\ exitAt \notin AfterOutputDirectory
               /\ exitCode # 0
               /\ exitAt = "outdir" =>
                     (exitMsg = "output_directory_exists" /\ exitCode = 1)
         /\ \A k \in 1..Len(log) : log[k].cmd # "cp"
         /\ outNew = {}
         /\ outKind = "dir"
         /\ outOld = outPre.files
    /\ exitMsg = "output_directory_exists" => OutputConflict
    /\ (outPre.kind = "dir" /\ opts.overwrite) =>
         /\ ~(pc = "exited" /\ exitAt = "outdir")
         /\ outOld \subseteq outPre.files
         /\ outPre.files \subseteq outOld \cup outNew

C8_Witness ==
    /\ OutputConflict
    /\ ~opts.dry_run
    /\ pc = "exited"
    /\ exitMsg = "output_directory_exists"
    /\ Commands(log) \in {<<"date", "zcat">>, <<"date", "ln">>}

\* the run got past the output-directory step
PastOutputDirectory ==
    \/ pc \in AfterOutputDirectory
    \/ pc = "exited" /\ exitAt \in AfterOutputDirectory

\* C9 as stated: past the output-directory step, the directory was newly
\* created by this run or it pre-existed with overwrite permitted.
C9_NeverProceedsWithExisting ==
    PastOutputDirectory =>
        \/ outPre.kind = "absent" /\ outCreated
        \/ outPre.kind = "dir" /\ opts.overwrite

\* C9 amended: past the output-directory step, the directory was newly
\* created by this run, or it pre-existed with overwrite permitted, or it
\* pre-existed empty; the run never proceeds with a pre-existing non-empty
\* directory when overwrite is off.
C9_NeverProceedsWithNonEmpty ==
    PastOutputDirectory =>
        /\ outKind = "dir"
        /\ \/ outPre.kind = "absent" /\ outCreated
           \/ outPre.kind = "dir" /\ opts.overwrite /\ ~outCreated
           \/ outPre.kind = "dir" /\ outPre.files = {} /\ ~outCreated

C9_Witness ==
    /\ PastOutputDirectory
    /\ outPre.kind = "dir"
    /\ outPre.files = {}
    /\ ~opts.overwrite
    /\ pc = "nii2mnc"

\* the copy loop has run to its end
StagingDone == pc \in {"timestamp_end", "return"}

\* C10: in execute mode, after the staging of a save-subset run into a
\* newly created output subdirectory, that directory holds exactly five
\* files: denoised, mask, extracted, nonlinear and the DBM NIfTI (no
\* transform, no raw or normalized volume, no intermediate DBM MINC file);
\* after the staging of a save-all run every entry of the workspace has
\* been copied.
C10_SavedFiles ==
    ~opts.dry_run =>
        /\ ((StagingDone \/ Completed) /\ ~opts.save_all /\ outCreated) =>
              /\ outOld \cup outNew =
                    {"denoised", "mask", "extracted", "nonlinear", "dbm_nii"}
              /\ Cardinality(outOld \cup outNew) = 5
        /\ (StagingDone /\ opts.save_all) =>
              /\ tmpFiles = AllArtifacts
              /\ tmpFiles \subseteq outNew

C10_Witness ==
    /\ ~opts.dry_run
    /\ Completed
    /\ ~opts.save_all
    /\ outCreated
    /\ Cardinality(outNew) = 5

IsMaterializeEntry(e) == e.cmd \in {"zcat", "ln"}

MaterializeEntries == SelectSeq(log, IsMaterializeEntry)

\* the name of the input scan ends with ".gz"
EndsWithGzip == opts.fname[Len(opts.fname)] = EXT_GZIP

\* C11: a run invokes at most one Materialize command, and exactly one
\* once an execute-mode run is past that step: zcat, with its standard
\* output redirected to a file of the workspace, exactly when the validated
\* input name ends with .gz, and otherwise ln -s, whose link name is the
\* input's name with its extension; an uncompressed input never gets zcat.
C11_Materialize ==
    /\ Len(MaterializeEntries) <= 1
    /\ (~opts.dry_run /\ pc \in InsideWith \ {"materialize"}) =>
           Len(MaterializeEntries) = 1
    /\ \A k \in 1..Len(log) :
         /\ log[k].cmd = "zcat" =>
               /\ EndsWithGzip
               /\ valid_file_format(opts.fname)
               /\ log[k].stdout = "file_raw"
               /\ log[k].out = {fpath_raw_nii}
               /\ fpath_raw_nii.parent = "dpath_tmp"
               /\ fpath_raw_nii.name \o <<EXT_GZIP>> = opts.fname
         /\ log[k].cmd = "ln" =>
               /\ ~EndsWithGzip
               /\ valid_file_format(opts.fname)
               /\ log[k].out = {fpath_raw_nii}
               /\ fpath_raw_nii.parent = "dpath_tmp"
               /\ fpath_raw_nii.name = opts.fname
               /\ fpath_raw_nii.name[Len(opts.fname)] = EXT_NIFTI

C11_Witness ==
    /\ pc = "outdir"
    /\ opts.fname = <<"scan001", "nii">>
    /\ Commands(log) = <<"date", "ln">>
    /\ log[2].returncode = 0

\* the stages that name their output with add_suffix: the path handed to
\* add_suffix, the output and the suffix
SuffixStages ==
    { <<"raw", "denoised", SUFFIX_DENOISED>>,
      <<"denoised", "norm", SUFFIX_NORM>>,
      <<"norm", "mask", SUFFIX_MASK>>,
      <<"norm", "extracted", SUFFIX_EXTRACTED>>,
      <<"extracted", "nonlinear", SUFFIX_NONLINEAR>>,
      <<"nonlinear", "dbm", SUFFIX_DBM>>,
      <<"dbm", "dbm_reshaped", SUFFIX_RESHAPED>> }

\* the outputs named with with_suffix: the path, the output, the extension
ExtensionStages ==
    { <<"raw_nii", "raw", EXT_MINC>>,
      <<"norm", "norm_transform", EXT_TRANSFORM>>,
      <<"nonlinear", "nonlinear_transform", EXT_TRANSFORM>>,
      <<"dbm_reshaped", "dbm_nii", EXT_NIFTI>> }

\* each stage command of lines 185-279: its primary input and its output
PrimaryInputs ==
    { <<"raw_nii", "raw">>, <<"raw", "denoised">>, <<"denoised", "norm">>,
      <<"norm", "mask">>, <<"norm", "extracted">>,
      <<"extracted", "nonlinear">>, <<"nonlinear_transform", "dbm">>,
      <<"dbm", "dbm_reshaped">>, <<"dbm_reshaped", "dbm_nii">> }

FixedSuffixes ==
    {SUFFIX_DENOISED, SUFFIX_NORM, SUFFIX_MASK, SUFFIX_EXTRACTED,
     SUFFIX_NONLINEAR, SUFFIX_DBM, SUFFIX_RESHAPED}

\* out is inp with the suffix put before the extension
SuffixAppended(inp, out, suffix) ==
    /\ out.parent = inp.parent
    /\ PathStem(out.name) = PathStem(inp.name) \o <<suffix>>
    /\ PathSuffix(out.name) = PathSuffix(inp.name)

\* the path of every artifact of the run
fpaths == [a \in AllArtifacts |-> fpath(a)]

PairwiseDistinct(P) ==
    \A a, b \in AllArtifacts : a # b => P[a] # P[b]

\* C12 as stated: for a valid input name, every stage's output path is its
\* primary input path with a fixed suffix put before the extension (stem
\* and extension kept), and the artifact paths are pairwise distinct.
C12_EveryStageAppendsSuffix ==
    pc \in InsideWith =>
        \A P \in {fpaths} :
            /\ \A st \in PrimaryInputs :
                  \E suffix \in FixedSuffixes :
                      SuffixAppended(P[st[1]], P[st[2]], suffix)
            /\ PairwiseDistinct(P)

\* C12 amended: for a valid input name, the outputs denoised, norm, mask,
\* extracted, nonlinear, dbm and dbm-reshaped are an earlier artifact's path
\* with the stage's suffix put before the extension (stem and extension
\* kept), the raw MINC, the two transforms and the DBM NIfTI are an earlier
\* artifact's path with the extension replaced, and the artifact paths are
\* pairwise distinct, so that no output path is an input path or an earlier
\* artifact's path.
C12_DerivedPathsDistinct ==
    pc \in InsideWith =>
        \A P \in {fpaths} :
            /\ \A st \in SuffixStages :
                  SuffixAppended(P[st[1]], P[st[2]], st[3])
            /\ \A st \in ExtensionStages :
                  /\ P[st[2]].parent = P[st[1]].parent
                  /\ PathStem(P[st[2]].name) = PathStem(P[st[1]].name)
                  /\ PathSuffix(P[st[2]].name) = st[3]
            /\ PairwiseDistinct(P)
            /\ \A a \in AllArtifacts : P[a] # fpath_nifti
            /\ \A k \in 1..Len(log) :
                  \A j \in 1..(k - 1) : log[k].out \cap log[j].out = {}

C12_Witness ==
    /\ ~opts.dry_run
    /\ Completed
    /\ opts.fname = <<"", "nii", "gz">>
    /\ fpath_dbm_nii.name =
          <<"", "nii", "denoised", "norm", "extracted", "nl", "dbm",
            "reshaped", "nii">>

\* no shared data root, and the template directory or the BEaST library
\* directory (or both) not supplied
ConfigurationIncomplete ==
    /\ opts.dpath_share = None
    /\ \/ opts.dpath_templates = None
       \/ opts.dpath_beast_lib = None

\* C13: with no shared data root and without the template directory or the
\* BEaST library directory, the run never gets past path processing: no
\* existence check on the input scan, the template, its mask or the library
\* is performed, no workspace is created, and the run that reaches path
\* processing exits there with the configuration error and exit code 1
\* (the only earlier exit is a failure of the opening timestamp command).
C13_ConfigurationError ==
    ConfigurationIncomplete =>
        /\ pc \in {"timestamp", "resolve", "exited"}
        /\ found = {}
        /\ tmp = "none"
        /\ nCleanup = 0
        /\ Len(log) <= 1
        /\ pc = "exited" =>
              \/ /\ exitAt = "resolve"
                 /\ exitMsg = "share_dir_not_given"
                 /\ exitCode = 1
              \/ /\ exitAt = "timestamp"
                 /\ ~opts.dry_run
                 /\ exitMsg \in {"returned", "OSError"}
                 /\ exitCode # 0

C13_Witness ==
    /\ pc = "exited"
    /\ exitAt = "resolve"
    /\ exitMsg = "share_dir_not_given"
    /\ exitCode = 1
    /\ opts.dpath_share = None
    /\ opts.dpath_templates = "path"
    /\ opts.dpath_beast_lib = None
    /\ found = {}
    /\ tmp = "none"

\* artifact a was written by a stage command that returned zero before
\* position k of the log
ProducedBefore(a, k) ==
    \E j \in 1..(k - 1) :
        /\ log[j].cmd \in StageCommands
        /\ log[j].returncode = 0
        /\ a \in log[j].writes

\* C14: every stage command invoked (execute mode) reads only artifacts
\* written by an earlier stage command that returned zero, and resources
\* that were validated (input scan, template, template mask, BEaST
\* library; the template directory holds the validated template, the BEaST
\* configuration file is looked up in the validated library): minccalc has
\* beast_normalize and mincbeast succeeded before it, nlfit_s has mincbeast
\* and minccalc.
C14_InputsProduced ==
    \A k \in 1..Len(log) :
        /\ log[k].cmd \in StageCommands =>
              /\ log[k].arg \in inputs_of(log[k].cmd)
              /\ \A i \in inputs_of(log[k].cmd) :
                    /\ i \in AllArtifacts => ProducedBefore(i, k)
                    /\ i \in Resources => i \in found
                    /\ i = "dpath_templates" => "fpath_template" \in found
                    /\ i = "fpath_conf" => "dpath_beast_lib" \in found
                    /\ i \in AllArtifacts \cup Resources
                             \cup {"dpath_templates", "fpath_conf"}
        /\ log[k].cmd = "minccalc" =>
              \E i, j \in 1..(k - 1) :
                  /\ log[i].cmd = "beast_normalize" /\ log[i].returncode = 0
                  /\ log[j].cmd = "mincbeast" /\ log[j].returncode = 0
        /\ log[k].cmd = "nlfit_s" =>
              \E i, j \in 1..(k - 1) :
                  /\ log[i].cmd = "mincbeast" /\ log[i].returncode = 0
                  /\ log[j].cmd = "minccalc" /\ log[j].returncode = 0

C14_Witness ==
    /\ ~opts.dry_run
    /\ pc = "pipeline_dbm"
    /\ log[Len(log)].cmd = "nlfit_s"
    /\ log[Len(log)].returncode = 0
    /\ {"mask", "extracted"} \subseteq tmpFiles

\* the positions of the ten stage commands (lines 164-279)
StagePositions ==
    {"materialize", "nii2mnc", "mincnlm", "beast_normalize", "mincbeast",
     "minccalc", "nlfit_s", "pipeline_dbm", "mincreshape", "mnc2nii"}

\* the files the cp commands that returned zero have copied
CopiedFiles ==
    {log[k].arg : k \in {i \in 1..Len(log) : /\ log[i].cmd = "cp"
                                             /\ log[i].returncode = 0}}

\* C15: a cp command is invoked only after each of the ten stage commands
\* has been invoked and has returned zero; a run that ends at a stage has
\* put nothing into the output directory and has left its earlier content
\* alone; at every moment, the end of a run that failed in the copy loop
\* included, the output directory holds the files whose cp returned zero.
C15_CopyAfterAllStages ==
    /\ \A k \in 1..Len(log) :
          log[k].cmd = "cp" =>
              /\ ~opts.dry_run
              /\ \E m \in {"zcat", "ln"} :
                    \A i \in 1..Len(StageOrder(m)) :
                        \E j \in 1..(k - 1) :
                            /\ log[j].cmd = StageOrder(m)[i]
                            /\ log[j].returncode = 0
    /\ (pc = "exited" /\ exitAt \in StagePositions) =>
          /\ outNew = {}
          /\ outOld = outPre.files
          /\ "cp" \notin {log[k].cmd : k \in 1..Len(log)}
    /\ outNew = CopiedFiles
    /\ (pc = "exited" /\ exitAt = "copy") =>
          /\ outNew = CopiedFiles
          /\ outOld \cap outNew = {}
          /\ outOld \cup outNew = outPre.files \cup CopiedFiles

C15_Witness ==
    /\ pc = "exited"
    /\ exitAt = "copy"
    /\ exitMsg = "returned"
    /\ exitCode # 0
    /\ Cardinality(outNew) = 2
    /\ log[Len(log)].cmd = "cp"
    /\ log[Len(log)].returncode # 0

\* C16: every path a stage command writes (the materialized scan, the raw
\* MINC, denoised, norm, both transforms, mask, extracted, nonlinear, dbm,
\* dbm-reshaped, dbm NIfTI) has the workspace as its parent; the commands
\* that write elsewhere are the cp commands, and each of them writes one
\* file in the output subdirectory; the other commands write no file.
C16_WritesInsideWorkspace ==
    \A k \in 1..Len(log) :
        /\ log[k].cmd \in StageCommands =>
              /\ log[k].out # {}
              /\ Cardinality(log[k].out) = Cardinality(log[k].writes)
              /\ \A p \in log[k].out : p.parent = "dpath_tmp"
        /\ log[k].cmd = "cp" =>
              /\ Cardinality(log[k].out) = 1
              /\ \A p \in log[k].out : p.parent = "dpath_out_sub"
        /\ log[k].cmd \notin StageCommands \cup {"cp"} => log[k].out = {}

C16_Witness ==
    /\ Completed
    /\ ~opts.dry_run
    /\ opts.save_all
    /\ outNew = AllArtifacts
    /\ \E k \in 1..Len(log) :
          /\ log[k].cmd = "cp"
          /\ log[k].out = {[parent |-> "dpath_out_sub", name |-> fpath_mask.name]}
    /\ \E k \in 1..Len(log) :
          /\ log[k].cmd = "nlfit_s"
          /\ log[k].out = {fpath_nonlinear, fpath_nonlinear_transform}

\* C17: with the quiet flag set, every command an execute-mode run invokes,
\* from the first to the last, is run with verbosity 0: its command line is
\* not echoed and its standard output is discarded, unless the caller
\* supplied a file for it.
C17_QuietWholeRun ==
    (opts.quiet /\ ~opts.dry_run) =>
        \A k \in 1..Len(log) :
            /\ log[k].verbosity = 0
            /\ ~log[k].echoed
            /\ log[k].stdout \in {"DEVNULL", "file_raw"}

\* what does hold of a quiet run: every command after the opening timestamp
\* is run with verbosity 0, and the opening timestamp is run with the
\* verbosity of the command line
QuietAfterFirstCommand ==
    (opts.quiet /\ ~opts.dry_run) =>
        \A k \in 1..Len(log) :
            IF k = 1
            THEN /\ log[k].cmd = "date"
                 /\ log[k].verbosity > 0
                 /\ log[k].echoed
            ELSE /\ log[k].verbosity = 0
                 /\ ~log[k].echoed
                 /\ log[k].stdout \in {"DEVNULL", "file_raw"}

MaterializeOnly == {<<"date", "zcat">>, <<"date", "ln">>}

\* C18: the output-directory step comes after the Materialize command and
\* before nii2mnc: when an execute-mode run is at that step, and when it
\* has reported the output conflict there, the commands invoked are exactly
\* the opening timestamp and the Materialize command, both having returned
\* zero; nii2mnc and the later stages are invoked only once the step has
\* left a directory that was not in conflict.
C18_PolicyAfterMaterialize ==
    /\ (~opts.dry_run /\ pc = "outdir") =>
          /\ Commands(log) \in MaterializeOnly
          /\ \A k \in 1..Len(log) : log[k].returncode = 0
    /\ exitMsg = "output_directory_exists" =>
          /\ pc = "exited"
          /\ exitAt = "outdir"
          /\ OutputConflict
          /\ ~opts.dry_run =>
                /\ Commands(log) \in MaterializeOnly
                /\ \A k \in 1..Len(log) : log[k].returncode = 0
                /\ StagesInvoked \in {<<"zcat">>, <<"ln">>}
    /\ \A k \in 1..Len(log) :
          log[k].cmd \in StageCommands \ {"zcat", "ln"} =>
              /\ k > 2
              /\ outKind = "dir"
              /\ ~OutputConflict

C18_Witness ==
    /\ ~opts.dry_run
    /\ OutputConflict
    /\ pc = "exited"
    /\ exitAt = "outdir"
    /\ exitCode = 1
    /\ opts.fname = <<"scan001", "nii", "gz">>
    /\ Len(log) = 2
    /\ log[2].cmd = "zcat"
    /\ log[2].returncode = 0

\* C19: in a dry run the output-directory step is still applied: past it
\* the output subdirectory is a directory, created by the run when it was
\* absent, and with a non-empty one and overwrite off the run stops there
\* with exit code 1; this creation is the only change outside the
\* workspace, and no file is written into the output subdirectory.
C19_DryRunAppliesPolicy ==
    opts.dry_run =>
        /\ pc \in AfterOutputDirectory \/ (pc = "exited" /\ exitAt \in AfterOutputDirectory) =>
              /\ outKind = "dir"
              /\ outCreated = (outPre.kind = "absent")
              /\ ~OutputConflict
        /\ (OutputConflict /\ pc = "exited" /\ exitAt = "outdir") =>
              /\ exitMsg = "output_directory_exists"
              /\ exitCode = 1
        /\ outKind # outPre.kind =>
              /\ outPre.kind = "absent"
              /\ outKind = "dir"
              /\ outCreated
        /\ outCreated => (outPre.kind = "absent" /\ outKind = "dir")
        /\ outNew = {}
        /\ outOld = outPre.files
        /\ log = <<>>

C19_Witness ==
    /\ opts.dry_run
    /\ Completed
    /\ outPre.kind = "absent"
    /\ outKind = "dir"
    /\ outCreated
    /\ outNew = {}
    /\ outOld = {}

====
